---- MODULE Spec2Model ----
(***************************************************************************)
(* Model of streamlit_app.py (RiskScore Pro): the memoized scoring and     *)
(* attribution pipeline, the report text assembly, the optional LLM        *)
(* generation block and the two export blocks, as executed by Streamlit    *)
(* script re-runs of several browser sessions inside one server process.   *)
(*                                                                         *)
(* Numbers are exact rationals <<n, d>> (d > 0, lowest terms), so that     *)
(* revolving / 100 is a real division and not the identity.                *)
(* The classifier, the explainer, the LLM client and the PDF / Excel       *)
(* writers are external libraries: each is a deterministic stand-in or an  *)
(* outcome chosen by the environment, as noted at its definition.          *)
(***************************************************************************)
EXTENDS Integers, Sequences, FiniteSets, TLC

VARIABLES
    load_model_cache,    \* st.cache_resource store of load_model
    explainer_cache,     \* st.cache_resource store of get_shap_explainer
    predict_cache,       \* st.cache_data store of predict_client
    shap_cache,          \* st.cache_data store of compute_shap_values
    secrets,             \* st.secrets: whether a secrets file exists, and its names
    nLoad,               \* number of joblib.load executions so far
    nExplainer,          \* number of shap.Explainer constructions so far
    nScored,             \* args -> number of completed scorings (lines 43-44)
    nExplained,          \* args -> number of completed attributions (line 54)
    runs,                \* number of script re-runs started so far
    stack,               \* session -> call stack of the running script
    widgets,             \* session -> the ten widget values (session state)
    texte_ia,            \* session -> st.session_state["texte_ia"]
    loc,                 \* session -> module-level variables of the run
    out,                 \* session -> what the run has rendered so far
    ret,                 \* session -> outcome of the last cached call
    returned,            \* every <<function, args, value>> returned so far
    call                 \* last application of a pure function (harness)

vars == <<load_model_cache, explainer_cache, predict_cache, shap_cache, secrets,
          nLoad, nExplainer, nScored, nExplained, runs, stack, widgets,
          texte_ia, loc, out, ret, returned, call>>

procVars == <<load_model_cache, explainer_cache, predict_cache, shap_cache,
              secrets, nLoad, nExplainer, nScored, nExplained, runs, stack,
              widgets, texte_ia, loc, out, ret, returned>>

None == "None"

(***************************************************************************)
(* Exact rational arithmetic.                                              *)
(***************************************************************************)
Abs(x) == IF x < 0 THEN -x ELSE x

RECURSIVE Gcd(_, _)
Gcd(a, b) == IF b = 0 THEN a ELSE Gcd(b, a % b)

Norm(n, d) ==
    LET g == Gcd(Abs(n), d) IN IF n = 0 THEN <<0, 1>> ELSE <<n \div g, d \div g>>

Num(n) == <<n, 1>>

Hundred == 100

\* x / k for an integer k > 0
DivBy(x, k) == Norm(x[1], x[2] * k)

\* x = y * k, by cross-multiplication (independent of Norm)
IsQuotient(y, x, k) == y[1] * x[2] * k = x[1] * y[2]

(***************************************************************************)
(* The ten client attributes, in the parameter order of predict_client.    *)
(***************************************************************************)
Params == <<"age", "income", "dependents", "open_credit", "real_estate",
            "debt_ratio", "revolving", "late_30", "late_60", "late_90">>

NParams == 10

ParamIx(p) == CHOOSE i \in 1..NParams : Params[i] = p

\* the widgets' initial values (lines 598-609)
Defaults == <<Num(35), Num(1500000), Num(2), Num(5), Num(1),
              <<1, 2>>, Num(30), Num(0), Num(0), Num(0)>>

\* one other value each widget can be moved to, inside its range
Moved == <<Num(60), Num(0), Num(3), Num(6), Num(2),
           <<3, 5>>, Num(31), Num(1), Num(2), Num(3)>>

Arg(args, p) == args[ParamIx(p)]

(***************************************************************************)
(* predict_client, lines 29-40: the one-row DataFrame, as the sequence of  *)
(* its columns <<name, value>> in insertion order.                         *)
(***************************************************************************)
client_df_swapped(args) ==
    << <<"RevolvingUtilizationOfUnsecuredLines", DivBy(Arg(args, "revolving"), Hundred)>>,
       <<"age", Arg(args, "age")>>,
       <<"NumberOfTime30-59DaysPastDueNotWorse", Arg(args, "late_30")>>,
       <<"DebtRatio", Arg(args, "debt_ratio")>>,
       <<"MonthlyIncome", Arg(args, "income")>>,
       <<"NumberOfOpenCreditLinesAndLoans", Arg(args, "open_credit")>>,
       <<"NumberOfTimes90DaysLate", Arg(args, "late_60")>>,
       <<"NumberRealEstateLoansOrLines", Arg(args, "real_estate")>>,
       <<"NumberOfTime60-89DaysPastDueNotWorse", Arg(args, "late_90")>>,
       <<"NumberOfDependents", Arg(args, "dependents")>> >>

build_client_df(args) ==
    << <<"RevolvingUtilizationOfUnsecuredLines", DivBy(Arg(args, "revolving"), Hundred)>>,
       <<"age", Arg(args, "age")>>,
       <<"NumberOfTime30-59DaysPastDueNotWorse", Arg(args, "late_30")>>,
       <<"DebtRatio", Arg(args, "debt_ratio")>>,
       <<"MonthlyIncome", Arg(args, "income")>>,
       <<"NumberOfOpenCreditLinesAndLoans", Arg(args, "open_credit")>>,
       <<"NumberOfTimes90DaysLate", Arg(args, "late_90")>>,
       <<"NumberRealEstateLoansOrLines", Arg(args, "real_estate")>>,
       <<"NumberOfTime60-89DaysPastDueNotWorse", Arg(args, "late_60")>>,
       <<"NumberOfDependents", Arg(args, "dependents")>> >>

Columns(df) == [i \in 1..Len(df) |-> df[i][1]]

Values(df) == [i \in 1..Len(df) |-> df[i][2]]

(***************************************************************************)
(* compute_shap_values, lines 57-61: the attribution table and its sort.   *)
(* sort_values(by='shap_value', key=abs, ascending=False) on ten rows:     *)
(* descending |shap_value|, equal keys keeping their original order.       *)
(***************************************************************************)
\* the rows of DataFrame({'feature':..., 'shap_value':..., 'value':...})
shap_rows(df, contribs) ==
    [i \in 1..Len(df) |->
        [feature |-> df[i][1], shap_value |-> contribs[i], value |-> df[i][2]]]

\* the key of a sort that forgot key=abs
SortKey_signed(row) == row.shap_value

\* key=abs
SortKey(row) == Abs(row.shap_value)

RECURSIVE Insert(_, _, _)
Insert(row, sorted, i) ==
    IF i > Len(sorted) THEN Append(sorted, row)
    ELSE IF SortKey(sorted[i]) < SortKey(row)
         THEN SubSeq(sorted, 1, i - 1) \o <<row>> \o SubSeq(sorted, i, Len(sorted))
         ELSE Insert(row, sorted, i + 1)

RECURSIVE SortFrom(_, _, _)
SortFrom(rows, i, acc) ==
    IF i > Len(rows) THEN acc ELSE SortFrom(rows, i + 1, Insert(rows[i], acc, 1))

sort_values(rows) == SortFrom(rows, 1, <<>>)

head(rows, n) == SubSeq(rows, 1, IF Len(rows) < n THEN Len(rows) ELSE n)

(***************************************************************************)
(* External libraries, as deterministic stand-ins.  The XGBoost model and  *)
(* the SHAP explainer are pure functions of the record (the model file     *)
(* never changes while the process lives); only that is relied on.         *)
(***************************************************************************)
RECURSIVE SumCells(_, _)
SumCells(df, i) ==
    IF i > Len(df) THEN 0 ELSE df[i][2][1] + df[i][2][2] + SumCells(df, i + 1)

\* model.predict_proba(client_df)[0][1] (line 43): a probability in [0, 1]
predict_proba(df) == Norm(SumCells(df, 1) % 101, Hundred)

\* model.predict(client_df)[0] (line 44): the class, 1 = predicted default
predict(df) == IF 2 * (SumCells(df, 1) % 101) >= Hundred THEN 1 ELSE 0

\* explainer(client_df)[0].values (lines 54, 59): one signed value per column
explain(df) ==
    [i \in 1..Len(df) |-> ((df[i][2][1] + df[i][2][2] + 3 * i) % 7) - 3]

(***************************************************************************)
(* generate_auto_ai_report, lines 66-115.  The returned string is kept as  *)
(* the record of its parts: which template was used and what was filled in.*)
(***************************************************************************)
\* str.replace(old, new) on a column name: none of the ten column names, nor
\* any replacement text, contains another pattern as a proper substring, so
\* a replacement either rewrites the whole name or leaves it alone.
Replace(s, old, new) == IF s = old THEN new ELSE s

\* lines 75-78
report_feature_name(feature) ==
    Replace(Replace(Replace(Replace(feature,
        "RevolvingUtilizationOfUnsecuredLines", "Crédit renouvelable"),
        "NumberOfTime30-59DaysPastDueNotWorse", "Retards 30-59j"),
        "MonthlyIncome", "Revenus mensuels"),
        "age", "Âge")

\* a direction word that ignores the sign
report_impact_unsigned(row) == "augmente"

\* line 74
report_impact(row) == IF row.shap_value > 0 THEN "augmente" ELSE "diminue"

\* lines 71-79: factors_text, one line per row of shap_df.head(3)
TopReport == 3

\* factor lines for the whole table, without the head(3) of line 71
factors_text_all(shap_df) ==
    [i \in 1..Len(shap_df) |->
        [name |-> report_feature_name(shap_df[i].feature),
         impact |-> report_impact(shap_df[i])]]

factors_text(shap_df) ==
    LET top == head(shap_df, TopReport) IN
    [i \in 1..Len(top) |->
        [name |-> report_feature_name(top[i].feature), impact |-> report_impact(top[i])]]

\* f"{income:,}": the decimal digits in groups of three, most significant first
Thousand == 1000

RECURSIVE Grouped(_)
Grouped(n) == IF n < Thousand THEN <<n>> ELSE Append(Grouped(n \div Thousand), n % Thousand)

\* f"{proba:.1%}": tenths of a percent, rounded to nearest
Pct1(p) == (2 * Thousand * p[1] + p[2]) \div (2 * p[2])

\* the template chosen by lines 81 / 97
report_template(lang) == IF lang = "fr" THEN "fr" ELSE "en"

generate_auto_ai_report(args, proba, classe, shap_df, lang) ==
    LET fr == report_template(lang) = "fr" IN
    [ template |-> report_template(lang),
      title |-> IF fr THEN "ANALYSE AUTOMATIQUE DU PROFIL CLIENT"
                ELSE "AUTOMATIC CLIENT PROFILE ANALYSIS",
      risk |-> IF fr THEN (IF classe = 1 THEN "ÉLEVÉ" ELSE "FAIBLE")
               ELSE (IF classe = 1 THEN "HIGH" ELSE "LOW"),
      proba |-> Pct1(proba),
      age |-> Arg(args, "age"),
      income_fcfa |-> <<Grouped(Arg(args, "income")[1]), "FCFA">>,
      dependents |-> Arg(args, "dependents"),
      debt_ratio |-> Arg(args, "debt_ratio"),
      revolving |-> Arg(args, "revolving"),
      factors |-> factors_text(shap_df),
      recommendation |->
          IF fr THEN (IF classe = 1
                      THEN "Surveillance renforcée nécessaire. Conditions strictes recommandées."
                      ELSE "Profil acceptable. Client éligible au crédit standard.")
          ELSE (IF classe = 1
                THEN "Enhanced monitoring required. Strict conditions recommended."
                ELSE "Acceptable profile. Client eligible for standard credit.") ]

(***************************************************************************)
(* Language detection from the URL, lines 250-257.                         *)
(***************************************************************************)
\* str.lower() on the query values the model draws
lower(s) ==
    CASE s = "FR" -> "fr"
      [] s = "EN" -> "en"
      [] s = "DE" -> "de"
      [] OTHER -> s

\* ?lang= values a browser may send; Absent is a URL without the parameter
Absent == "<absent>"

UrlLangs == {Absent, "fr", "en", "FR", "EN", "de", "DE", ""}

resolve_lang(url) ==
    LET lang_candidate == lower(IF url = Absent THEN "fr" ELSE url) IN
    IF lang_candidate \in {"fr", "en"} THEN lang_candidate ELSE "fr"

(***************************************************************************)
(* Streamlit's memoization decorators (lines 17, 22, 27, 49).  A store is  *)
(* a function from keys to values.  A decorated call looks its key up; on  *)
(* a hit it returns the stored value without running the body; on a miss   *)
(* it runs the body and writes the value when the body returns.  A body    *)
(* that raises writes nothing.  No ttl and no max_entries are given, so    *)
(* nothing is ever evicted.                                                *)
(***************************************************************************)
Empty == [k \in {} |-> None]

\* a store with room for one entry: a write evicts what was there
Put_evicting(cache, key, value) == [k \in {key} |-> value]

Put(cache, key, value) ==
    [k \in DOMAIN cache \cup {key} |-> IF k = key THEN value ELSE cache[k]]

Count(counter, key) == IF key \in DOMAIN counter THEN counter[key] ELSE 0

\* a key that leaves out the last argument
CacheKey_short(args) == SubSeq(args, 1, Len(args) - 1)

\* @st.cache_data hashes every positional argument, in order
CacheKey(args) == args

\* a lookup that never finds anything
data_hit_never(cache, key) == FALSE

data_hit(cache, key) == key \in DOMAIN cache

\* a wrapper that writes what it has when the body raises
after_raise_stored(cache, key, partial) == Put(cache, key, partial)

\* the store after a body raised: nothing is written
after_raise(cache, key, partial) == cache

\* load_model re-running its body on every call
load_model_uncached == FALSE

\* @st.cache_resource on load_model(): no arguments, one key
load_model_cached == <<>> \in DOMAIN load_model_cache

\* get_shap_explainer re-running its body on every call
explainer_uncached == FALSE

\* @st.cache_resource on get_shap_explainer(_model): the leading underscore
\* keeps _model out of the key, so there is one key here too
explainer_cached == <<>> \in DOMAIN explainer_cache

(***************************************************************************)
(* Sessions and the script's call stack.                                   *)
(***************************************************************************)
Sessions == {"s1", "s2"}

\* sessions are named in the order their browser tabs open
FirstSession == "s1"

\* total number of script re-runs explored
MaxRuns == 2

\* no object bound yet
NoHandle == [object |-> None]

Frame(at) == [at |-> at, client_df |-> <<>>, model |-> NoHandle, explainer |-> NoHandle]

NoLoc == [client_df |-> <<>>, proba |-> None, classe |-> None,
          shap_values |-> [values |-> <<>>, data |-> <<>>], shap_df |-> <<>>,
          lang |-> None]

\* nothing rendered yet: records and sequences have an empty value of their
\* own kind, texts have None
NoReport == [template |-> None]

NoBody == [source |-> None]

NoOut == [exception |-> None, auto_report |-> NoReport, interpretation |-> <<>>,
          llm_called |-> FALSE, llm_result |-> None, llm_message |-> None,
          llm_card |-> None,
          pdf |-> None, pdf_body |-> NoBody, excel |-> None, excel_factors |-> <<>>,
          health |-> None, footer |-> FALSE]

NoRet == [fn |-> None]

NoCall == [fn |-> None]

Unset == "<unset>"

Top(s) == stack[s][1]

At(s, label) == stack[s] # <<>> /\ Top(s).at = label

Idle(s) == stack[s] = <<>>

\* the widget settings explored: the initial one and each single widget moved
Settings == {Defaults} \cup {[Defaults EXCEPT ![i] = Moved[i]] : i \in 1..NParams}

\* st.secrets of a deployment.  The mapping is read from secrets.toml the
\* first time it is used; a deployment without any secrets file has nothing
\* to read.
NoSecretsFile == [file |-> FALSE, names |-> {}]

SecretsFile(names) == [file |-> TRUE, names |-> names]

Deployments == {NoSecretsFile} \cup {SecretsFile(n) : n \in SUBSET {"COHERE_API_KEY"}}

\* `key in st.secrets` (line 739) and st.secrets[key] (line 744): with no
\* secrets file the lookup itself raises (Streamlit: "No secrets files
\* found"), otherwise it is membership in the file's names
secrets_contains(key) ==
    IF ~secrets.file THEN "raises"
    ELSE IF key \in secrets.names THEN "yes" ELSE "no"

Init ==
    /\ load_model_cache = Empty
    /\ explainer_cache = Empty
    /\ predict_cache = Empty
    /\ shap_cache = Empty
    /\ secrets \in Deployments
    /\ nLoad = 0
    /\ nExplainer = 0
    /\ nScored = Empty
    /\ nExplained = Empty
    /\ runs = 0
    /\ stack = [s \in Sessions |-> <<>>]
    /\ widgets = [s \in Sessions |-> Defaults]
    /\ texte_ia = [s \in Sessions |-> Unset]
    /\ loc = [s \in Sessions |-> NoLoc]
    /\ out = [s \in Sessions |-> NoOut]
    /\ ret = [s \in Sessions |-> NoRet]
    /\ returned = {}
    /\ call = NoCall

(***************************************************************************)
(* A cached call returning `value` to the frame that made it: the caller   *)
(* binds the value and moves to its next line.                             *)
(***************************************************************************)
Resume(st, l, value) ==
    LET f == st[1]
        rest == Tail(st)
    IN CASE f.at = "L616" ->
              [stack |-> <<[f EXCEPT !.at = "L617"]>> \o rest,
               loc |-> [l EXCEPT !.client_df = value[1], !.proba = value[2],
                                 !.classe = value[3]]]
         [] f.at = "L617" ->
              [stack |-> <<[f EXCEPT !.at = "L620"]>> \o rest,
               loc |-> [l EXCEPT !.shap_values = value[1], !.shap_df = value[2]]]
         [] f.at = "L51" ->
              [stack |-> <<[f EXCEPT !.at = "L52", !.client_df = value[1]]>> \o rest,
               loc |-> l]
         [] f.at = "L42" ->
              [stack |-> <<[f EXCEPT !.at = "L43", !.model = value]>> \o rest,
               loc |-> l]
         [] f.at = "L52" ->
              [stack |-> <<[f EXCEPT !.at = "L53", !.model = value]>> \o rest,
               loc |-> l]
         [] f.at = "L53" ->
              [stack |-> <<[f EXCEPT !.at = "L54", !.explainer = value]>> \o rest,
               loc |-> l]

Push(s, frame) == stack' = [stack EXCEPT ![s] = <<frame>> \o @]

\* in `returned`, the value of a call that raised
Raised == <<>>

\* an exception nobody catches unwinds the whole script run
Unwound(s, what) ==
    /\ stack' = [stack EXCEPT ![s] = <<Frame("error")>>]
    /\ out' = [out EXCEPT ![s].exception = what]
    /\ returned' = returned \cup {<<what, widgets[s], Raised>>}

Outcome(fn, args, hit, value) == [fn |-> fn, args |-> args, hit |-> hit, value |-> value]

Record(s, fn, hit, value) ==
    /\ ret' = [ret EXCEPT ![s] = Outcome(fn, widgets[s], hit, value)]
    /\ returned' = returned \cup {<<fn, widgets[s], value>>}

(***************************************************************************)
(* A user interaction: Streamlit re-runs the whole script for the session. *)
(* The interaction moves at most one widget (lines 598-609).               *)
(***************************************************************************)
Interaction(s, movable) ==
    /\ Idle(s)
    /\ runs < MaxRuns
    /\ s = FirstSession \/ runs > 0
    /\ \E i \in {0} \cup movable :
          LET w == IF i = 0 THEN widgets[s]
                   ELSE [widgets[s] EXCEPT
                            ![i] = IF @ = Defaults[i] THEN Moved[i] ELSE Defaults[i]]
          IN /\ w \in Settings
             /\ widgets' = [widgets EXCEPT ![s] = w]
    /\ runs' = runs + 1
    /\ stack' = [stack EXCEPT ![s] = <<Frame("L616")>>]
    /\ UNCHANGED <<load_model_cache, explainer_cache, predict_cache, shap_cache,
                   secrets, nLoad, nExplainer, nScored, nExplained, texte_ia,
                   loc, out, ret, returned, call>>

\* any of the ten widgets may be the one that moved
Rerun(s) == Interaction(s, 1..NParams)

\* the interactions explored when runs overlap: only late_90 ever moves
RerunRace(s) == Interaction(s, {NParams})

(***************************************************************************)
(* predict_client, lines 27-46; called at line 616 and at line 51.         *)
(***************************************************************************)
Call_predict_client(s) ==
    /\ At(s, "L616") \/ At(s, "L51")
    /\ LET key == CacheKey(widgets[s]) IN
       IF data_hit(predict_cache, key)
       THEN LET r == Resume(stack[s], loc[s], predict_cache[key]) IN
            /\ stack' = [stack EXCEPT ![s] = r.stack]
            /\ loc' = [loc EXCEPT ![s] = r.loc]
            /\ Record(s, "predict_client", TRUE, predict_cache[key])
       ELSE /\ Push(s, [Frame("L42") EXCEPT !.client_df = build_client_df(widgets[s])])
            /\ UNCHANGED <<loc, ret, returned>>
    /\ UNCHANGED <<load_model_cache, explainer_cache, predict_cache, shap_cache,
                   secrets, nLoad, nExplainer, nScored, nExplained, runs, widgets,
                   texte_ia, out, call>>

\* lines 43-46 and the decorator's write; or lines 43-44 raising
Score(s) ==
    /\ At(s, "L43")
    /\ LET f == Top(s)
           key == CacheKey(widgets[s])
           value == <<f.client_df, predict_proba(f.client_df), predict(f.client_df)>>
       IN \/ LET r == Resume(Tail(stack[s]), loc[s], value) IN
             /\ predict_cache' = Put(predict_cache, key, value)
             /\ nScored' = Put(nScored, widgets[s], Count(nScored, widgets[s]) + 1)
             /\ stack' = [stack EXCEPT ![s] = r.stack]
             /\ loc' = [loc EXCEPT ![s] = r.loc]
             /\ Record(s, "predict_client", FALSE, value)
             /\ UNCHANGED out
          \/ /\ predict_cache' = after_raise(predict_cache, key, <<f.client_df, Num(0), 0>>)
             /\ Unwound(s, "predict_client")
             /\ UNCHANGED <<nScored, loc, ret>>
    /\ UNCHANGED <<load_model_cache, explainer_cache, shap_cache, secrets, nLoad,
                   nExplainer, nExplained, runs, widgets, texte_ia, call>>

(***************************************************************************)
(* load_model, lines 17-19; called at line 42 and at line 52.              *)
(***************************************************************************)
Call_load_model(s) ==
    /\ At(s, "L42") \/ At(s, "L52")
    /\ IF load_model_cached
       THEN LET r == Resume(stack[s], loc[s], load_model_cache[<<>>]) IN
            /\ stack' = [stack EXCEPT ![s] = r.stack]
            /\ loc' = [loc EXCEPT ![s] = r.loc]
       ELSE /\ Push(s, Frame("L19"))
            /\ UNCHANGED loc
    /\ UNCHANGED <<load_model_cache, explainer_cache, predict_cache, shap_cache,
                   secrets, nLoad, nExplainer, nScored, nExplained, runs, widgets,
                   texte_ia, out, ret, returned, call>>

\* line 19: joblib.load builds a new object each time it runs
joblib_load(s) ==
    /\ At(s, "L19")
    /\ LET handle == [object |-> "model", id |-> nLoad + 1]
           r == Resume(Tail(stack[s]), loc[s], handle)
       IN /\ nLoad' = nLoad + 1
          /\ load_model_cache' = Put(load_model_cache, <<>>, handle)
          /\ stack' = [stack EXCEPT ![s] = r.stack]
          /\ loc' = [loc EXCEPT ![s] = r.loc]
    /\ UNCHANGED <<explainer_cache, predict_cache, shap_cache, secrets, nExplainer,
                   nScored, nExplained, runs, widgets, texte_ia, out, ret,
                   returned, call>>

(***************************************************************************)
(* compute_shap_values, lines 49-63; called at line 617.                   *)
(***************************************************************************)
\* an attribution miss that builds the record itself instead of calling
\* predict_client at line 51
Call_compute_shap_values_direct(s) ==
    /\ At(s, "L617")
    /\ LET key == CacheKey(widgets[s]) IN
       IF data_hit(shap_cache, key)
       THEN LET r == Resume(stack[s], loc[s], shap_cache[key]) IN
            /\ stack' = [stack EXCEPT ![s] = r.stack]
            /\ loc' = [loc EXCEPT ![s] = r.loc]
            /\ Record(s, "compute_shap_values", TRUE, shap_cache[key])
       ELSE /\ Push(s, [Frame("L52") EXCEPT !.client_df = build_client_df(widgets[s])])
            /\ UNCHANGED <<loc, ret, returned>>
    /\ UNCHANGED <<load_model_cache, explainer_cache, predict_cache, shap_cache,
                   secrets, nLoad, nExplainer, nScored, nExplained, runs, widgets,
                   texte_ia, out, call>>

Call_compute_shap_values(s) ==
    /\ At(s, "L617")
    /\ LET key == CacheKey(widgets[s]) IN
       IF data_hit(shap_cache, key)
       THEN LET r == Resume(stack[s], loc[s], shap_cache[key]) IN
            /\ stack' = [stack EXCEPT ![s] = r.stack]
            /\ loc' = [loc EXCEPT ![s] = r.loc]
            /\ Record(s, "compute_shap_values", TRUE, shap_cache[key])
       ELSE /\ Push(s, Frame("L51"))
            /\ UNCHANGED <<loc, ret, returned>>
    /\ UNCHANGED <<load_model_cache, explainer_cache, predict_cache, shap_cache,
                   secrets, nLoad, nExplainer, nScored, nExplained, runs, widgets,
                   texte_ia, out, call>>

(***************************************************************************)
(* get_shap_explainer, lines 22-24; called at line 53.                     *)
(***************************************************************************)
Call_get_shap_explainer(s) ==
    /\ At(s, "L53")
    /\ IF explainer_cached
       THEN LET r == Resume(stack[s], loc[s], explainer_cache[<<>>]) IN
            /\ stack' = [stack EXCEPT ![s] = r.stack]
            /\ loc' = [loc EXCEPT ![s] = r.loc]
       ELSE /\ Push(s, [Frame("L24") EXCEPT !.model = Top(s).model])
            /\ UNCHANGED loc
    /\ UNCHANGED <<load_model_cache, explainer_cache, predict_cache, shap_cache,
                   secrets, nLoad, nExplainer, nScored, nExplained, runs, widgets,
                   texte_ia, out, ret, returned, call>>

\* line 24: shap.Explainer(_model) builds a new object each time it runs
shap_Explainer(s) ==
    /\ At(s, "L24")
    /\ LET handle == [object |-> "explainer", id |-> nExplainer + 1,
                      model |-> Top(s).model]
           r == Resume(Tail(stack[s]), loc[s], handle)
       IN /\ nExplainer' = nExplainer + 1
          /\ explainer_cache' = Put(explainer_cache, <<>>, handle)
          /\ stack' = [stack EXCEPT ![s] = r.stack]
          /\ loc' = [loc EXCEPT ![s] = r.loc]
    /\ UNCHANGED <<load_model_cache, predict_cache, shap_cache, secrets, nLoad,
                   nScored, nExplained, runs, widgets, texte_ia, out, ret,
                   returned, call>>

\* lines 54-63 and the decorator's write; or line 54 raising
Explain(s) ==
    /\ At(s, "L54")
    /\ LET f == Top(s)
           key == CacheKey(widgets[s])
           contribs == explain(f.client_df)
           shap_df == sort_values(shap_rows(f.client_df, contribs))
           value == << [values |-> contribs, data |-> Values(f.client_df)], shap_df >>
       IN \/ LET r == Resume(Tail(stack[s]), loc[s], value) IN
             /\ shap_cache' = Put(shap_cache, key, value)
             /\ nExplained' = Put(nExplained, widgets[s], Count(nExplained, widgets[s]) + 1)
             /\ stack' = [stack EXCEPT ![s] = r.stack]
             /\ loc' = [loc EXCEPT ![s] = r.loc]
             /\ Record(s, "compute_shap_values", FALSE, value)
             /\ UNCHANGED out
          \/ /\ shap_cache' = after_raise(shap_cache, key, <<value[1], <<>> >>)
             /\ Unwound(s, "compute_shap_values")
             /\ UNCHANGED <<nExplained, loc, ret>>
    /\ UNCHANGED <<load_model_cache, explainer_cache, predict_cache, secrets, nLoad,
                   nExplainer, nScored, runs, widgets, texte_ia, call>>

(***************************************************************************)
(* The page below the scoring calls.  Lines 620-733: metrics, waterfall    *)
(* plot, interpretation list, automatic report, prompt.  The language was  *)
(* read from the URL at lines 250-257; it is an input of the run that the  *)
(* scoring calls never read, so the model draws it where it is first used. *)
(***************************************************************************)
\* lines 684-693 (the sign in 'Retards >=90 jours' is U+2265 in the source)
page_feature_display(feature) ==
    Replace(Replace(Replace(Replace(Replace(Replace(Replace(Replace(Replace(Replace(
        feature,
        "RevolvingUtilizationOfUnsecuredLines", "Utilisation crédit renouvelable"),
        "NumberOfTime30-59DaysPastDueNotWorse", "Retards 30-59 jours"),
        "NumberOfTime60-89DaysPastDueNotWorse", "Retards 60-89 jours"),
        "NumberOfTimes90DaysLate", "Retards >=90 jours"),
        "MonthlyIncome", "Revenu mensuel"),
        "NumberOfOpenCreditLinesAndLoans", "Crédits actifs"),
        "NumberRealEstateLoansOrLines", "Prêts immobiliers"),
        "NumberOfDependents", "Personnes à charge"),
        "DebtRatio", "Ratio d'endettement"),
        "age", "Âge")

\* line 683
impact_direction(row) == IF row.shap_value > 0 THEN "augmente" ELSE "diminue"

\* lines 675-695
TopPage == 3

interpretation(shap_df) ==
    LET top_features == head(shap_df, TopPage) IN
    [i \in 1..Len(top_features) |->
        [name |-> page_feature_display(top_features[i].feature),
         impact |-> impact_direction(top_features[i])]]

Report(s) ==
    /\ At(s, "L620")
    /\ \E url \in UrlLangs :
          LET lang == resolve_lang(url) IN
          /\ loc' = [loc EXCEPT ![s].lang = lang]
          /\ out' = [out EXCEPT
                ![s].interpretation = interpretation(loc[s].shap_df),
                ![s].auto_report =
                    generate_auto_ai_report(widgets[s], loc[s].proba, loc[s].classe,
                                            loc[s].shap_df, lang)]
    /\ stack' = [stack EXCEPT ![s] = <<[Top(s) EXCEPT !.at = "L735"]>>]
    /\ UNCHANGED <<load_model_cache, explainer_cache, predict_cache, shap_cache,
                   secrets, nLoad, nExplainer, nScored, nExplained, runs, widgets,
                   texte_ia, ret, returned, call>>

(***************************************************************************)
(* LLM generation block, lines 735-757.                                    *)
(***************************************************************************)
\* Python truthiness of the stored text
Truthy(text) == text \notin {None, Unset, ""}

\* what co.generate may send back (response.generations[0].text)
Generations == {"   ", " Avis: accepté "}

\* str.strip() on those
strip(text) ==
    CASE text = "   " -> ""
      [] text = " Avis: accepté " -> "Avis: accepté"
      [] OTHER -> text

\* a handler that also resets the stored text
generate_failed_clearing(stored) ==
    [texte_ia |-> None, message |-> "Erreur API Cohere", propagates |-> FALSE]

\* an exception of the client that nothing catches
generate_failed_uncaught(stored) ==
    [texte_ia |-> stored, message |-> None, propagates |-> TRUE]

\* lines 752-753: except Exception -> st.error
generate_failed(stored) ==
    [texte_ia |-> stored, message |-> "Erreur API Cohere", propagates |-> FALSE]

\* line 751
generate_succeeded(stored, text) ==
    [texte_ia |-> strip(text), message |-> None, propagates |-> FALSE]

LLMBlock(s) ==
    /\ At(s, "L735")
    /\ LET stored == IF texte_ia[s] = Unset THEN None ELSE texte_ia[s]   \* 735-736
           Shown(t, msg, result) ==
               /\ texte_ia' = [texte_ia EXCEPT ![s] = t]
               /\ out' = [out EXCEPT ![s].llm_called = result # None,
                                     ![s].llm_result = result,
                                     ![s].llm_message = msg,
                                     ![s].llm_card = IF Truthy(t) THEN t ELSE None]
               /\ stack' = [stack EXCEPT ![s] = <<[Top(s) EXCEPT !.at = "L764"]>>]
           Ends(r, result) ==
               IF r.propagates
               THEN /\ texte_ia' = [texte_ia EXCEPT ![s] = r.texte_ia]
                    /\ stack' = [stack EXCEPT ![s] = <<Frame("error")>>]
                    /\ out' = [out EXCEPT ![s].llm_called = TRUE,
                                          ![s].llm_result = result,
                                          ![s].exception = "co.generate"]
               ELSE Shown(r.texte_ia, r.message, result)
       IN \/ Shown(stored, None, None)                          \* button not pressed
          \/ /\ secrets_contains("COHERE_API_KEY") = "raises"    \* line 739 raises,
             /\ texte_ia' = [texte_ia EXCEPT ![s] = stored]      \* outside any try
             /\ stack' = [stack EXCEPT ![s] = <<Frame("error")>>]
             /\ out' = [out EXCEPT ![s].exception = "st.secrets"]
          \/ /\ secrets_contains("COHERE_API_KEY") = "no"        \* lines 739-740
             /\ Shown(stored, "missing_api_key", None)
          \/ /\ secrets_contains("COHERE_API_KEY") = "yes"       \* lines 741-753
             /\ \/ Ends(generate_failed(stored), "failed")
                \/ \E text \in Generations :
                      Ends(generate_succeeded(stored, text), "generated")
    /\ UNCHANGED <<load_model_cache, explainer_cache, predict_cache, shap_cache,
                   secrets, nLoad, nExplainer, nScored, nExplained, runs, widgets,
                   loc, ret, returned, call>>

(***************************************************************************)
(* Export blocks, lines 759-875, and the footer, lines 880-887.            *)
(***************************************************************************)
\* remove_accents, lines 120-121, on the accented texts of the model
remove_accents(text) ==
    CASE text = "ÉLEVÉ" -> "ELEVE"
      [] text = "Crédit renouvelable" -> "Credit renouvelable"
      [] text = "Âge" -> "Age"
      [] text = "Surveillance renforcée nécessaire. Conditions strictes recommandées."
              -> "Surveillance renforcee necessaire. Conditions strictes recommandees."
      [] text = "Profil acceptable. Client éligible au crédit standard."
              -> "Profil acceptable. Client eligible au credit standard."
      [] text = "Avis: accepté" -> "Avis: accepte"
      [] OTHER -> text

\* lines 791-795: the body of the PDF, from the text chosen at line 764
pdf_body(report_to_export, from_llm) ==
    IF from_llm
    THEN [source |-> "texte_ia", text |-> remove_accents(report_to_export)]
    ELSE [source |-> "auto_report",
          template |-> report_to_export.template,
          risk |-> remove_accents(report_to_export.risk),
          factors |-> [i \in 1..Len(report_to_export.factors) |->
                          [name |-> remove_accents(report_to_export.factors[i].name),
                           impact |-> report_to_export.factors[i].impact]],
          recommendation |-> remove_accents(report_to_export.recommendation)]

\* a PDF block without its try/except: an assembly error ends the run
PDFBlock_uncaught(s) ==
    /\ At(s, "L764")
    /\ LET from_llm == Truthy(texte_ia[s])
           report_to_export == IF from_llm THEN texte_ia[s] ELSE out[s].auto_report
       IN \/ /\ out' = [out EXCEPT ![s].pdf = "offered",
                                   ![s].pdf_body = pdf_body(report_to_export, from_llm)]
             /\ stack' = [stack EXCEPT ![s] = <<[Top(s) EXCEPT !.at = "L812"]>>]
          \/ /\ out' = [out EXCEPT ![s].exception = "FPDF"]
             /\ stack' = [stack EXCEPT ![s] = <<Frame("error")>>]
    /\ UNCHANGED <<load_model_cache, explainer_cache, predict_cache, shap_cache,
                   secrets, nLoad, nExplainer, nScored, nExplained, runs, widgets,
                   texte_ia, loc, ret, returned, call>>

PDFBlock(s) ==
    /\ At(s, "L764")
    /\ LET from_llm == Truthy(texte_ia[s])
           report_to_export == IF from_llm THEN texte_ia[s] ELSE out[s].auto_report
       IN \/ out' = [out EXCEPT ![s].pdf = "offered",
                                ![s].pdf_body = pdf_body(report_to_export, from_llm)]
          \/ out' = [out EXCEPT ![s].pdf = "Erreur génération PDF"]   \* lines 808-809
    /\ stack' = [stack EXCEPT ![s] = <<[Top(s) EXCEPT !.at = "L812"]>>]
    /\ UNCHANGED <<load_model_cache, explainer_cache, predict_cache, shap_cache,
                   secrets, nLoad, nExplainer, nScored, nExplained, runs, widgets,
                   texte_ia, loc, ret, returned, call>>

\* lines 832-843: Series.replace with a dict rewrites whole values
excel_feature_name(feature) ==
    CASE feature = "RevolvingUtilizationOfUnsecuredLines" -> "Utilisation_Credit_Renouvelable"
      [] feature = "NumberOfTime30-59DaysPastDueNotWorse" -> "Retards_30_59_jours"
      [] feature = "NumberOfTime60-89DaysPastDueNotWorse" -> "Retards_60_89_jours"
      [] feature = "NumberOfTimes90DaysLate" -> "Retards_90_jours_plus"
      [] feature = "MonthlyIncome" -> "Revenu_Mensuel"
      [] feature = "NumberOfOpenCreditLinesAndLoans" -> "Credits_Actifs"
      [] feature = "NumberRealEstateLoansOrLines" -> "Prets_Immobiliers"
      [] feature = "NumberOfDependents" -> "Personnes_Charge"
      [] feature = "DebtRatio" -> "Ratio_Endettement"
      [] feature = "age" -> "Age"
      [] OTHER -> feature

\* line 831
TopExport == 5

shap_export(shap_df) ==
    LET top == head(shap_df, TopExport) IN
    [i \in 1..Len(top) |-> [top[i] EXCEPT !.feature = excel_feature_name(@)]]

\* lines 864-873: score_sante = (1 - proba) * 100 against 80 and 60
HealthExcellent == 80

HealthCorrect == 60

score_text(proba) ==
    LET n == Hundred * (proba[2] - proba[1])
        d == proba[2]
    IN IF n >= HealthExcellent * d THEN "Excellent"
       ELSE IF n >= HealthCorrect * d THEN "Correct"
       ELSE "Faible"

\* Excel block, health score and footer: lines 811-887
ExcelBlock(s) ==
    /\ At(s, "L812")
    /\ LET rest(o) == [o EXCEPT !.health = score_text(loc[s].proba), !.footer = TRUE]
       IN \/ out' = [out EXCEPT ![s] = rest([@ EXCEPT
                        !.excel = "offered",
                        !.excel_factors = shap_export(loc[s].shap_df)])]
          \/ out' = [out EXCEPT ![s] = rest([@ EXCEPT               \* lines 858-859
                        !.excel = "Erreur génération Excel"])]
    /\ stack' = [stack EXCEPT ![s] = <<[Top(s) EXCEPT !.at = "done"]>>]
    /\ UNCHANGED <<load_model_cache, explainer_cache, predict_cache, shap_cache,
                   secrets, nLoad, nExplainer, nScored, nExplained, runs, widgets,
                   texte_ia, loc, ret, returned, call>>

\* the script run is over (at its last line or with an uncaught exception):
\* its variables are dropped; caches and session state stay
EndRun(s) ==
    /\ At(s, "done") \/ At(s, "error")
    /\ stack' = [stack EXCEPT ![s] = <<>>]
    /\ loc' = [loc EXCEPT ![s] = NoLoc]
    /\ out' = [out EXCEPT ![s] = NoOut]
    /\ ret' = [ret EXCEPT ![s] = NoRet]
    /\ UNCHANGED <<load_model_cache, explainer_cache, predict_cache, shap_cache,
                   secrets, nLoad, nExplainer, nScored, nExplained, runs, widgets,
                   texte_ia, returned, call>>

(***************************************************************************)
(* The process.  Spec: the deployment the design assumes, one script run   *)
(* at a time.  SpecRace: runs of different sessions interleave at every    *)
(* step and the stores are read and written without any lock, so two runs  *)
(* can both miss on one key and both compute and write.                    *)
(***************************************************************************)
Alone(s) == \A t \in Sessions \ {s} : Idle(t)

RerunAlone(s) == Alone(s) /\ Rerun(s)

Scoring(s) ==
    \/ Call_predict_client(s)
    \/ Score(s)
    \/ Call_load_model(s)
    \/ joblib_load(s)
    \/ Call_compute_shap_values(s)
    \/ Call_get_shap_explainer(s)
    \/ shap_Explainer(s)
    \/ Explain(s)

Page(s) ==
    \/ Report(s)
    \/ LLMBlock(s)
    \/ PDFBlock(s)
    \/ ExcelBlock(s)

Next == \E s \in Sessions : RerunAlone(s) \/ Scoring(s) \/ Page(s) \/ EndRun(s)

Spec == Init /\ [][Next]_vars

\* Lines 620-887 in one step, for SpecRace: they read no store, and all they
\* leave behind when the run is over is the session's stored LLM text.
RenderRest(s) ==
    /\ At(s, "L620")
    /\ \E text \in {IF texte_ia[s] = Unset THEN None ELSE texte_ia[s]}
                    \cup (IF secrets_contains("COHERE_API_KEY") = "yes"
                          THEN {strip(g) : g \in Generations} ELSE {}) :
          texte_ia' = [texte_ia EXCEPT ![s] = text]
    /\ stack' = [stack EXCEPT ![s] = <<>>]
    /\ loc' = [loc EXCEPT ![s] = NoLoc]
    /\ ret' = [ret EXCEPT ![s] = NoRet]
    /\ UNCHANGED <<load_model_cache, explainer_cache, predict_cache, shap_cache,
                   secrets, nLoad, nExplainer, nScored, nExplained, runs, widgets,
                   out, returned, call>>

NextRace == \E s \in Sessions : RerunRace(s) \/ Scoring(s) \/ RenderRest(s) \/ EndRun(s)

SpecRace == Init /\ [][NextRace]_vars

(***************************************************************************)
(* SpecFn: the pure functions of the pipeline applied to inputs drawn from *)
(* bounded sets, one application per behaviour, recorded in `call`.        *)
(***************************************************************************)
\* argument tuples: each parameter at its initial or its moved value, and
\* revolving also at 37.5
BuildInputs ==
    LET base == {[i \in 1..NParams |-> IF moved[i] THEN Moved[i] ELSE Defaults[i]] :
                    moved \in [1..NParams -> BOOLEAN]}
    IN base \cup {[args EXCEPT ![ParamIx("revolving")] = <<75, 2>>] : args \in base}

ApplyBuild ==
    /\ call = NoCall
    /\ \E args \in BuildInputs :
          call' = [fn |-> "build_client_df", args |-> args, result |-> build_client_df(args)]
    /\ UNCHANGED procVars

\* attribution vectors: negative, zero and positive values, ties of equal
\* and of opposite sign
ContribInputs ==
    {[i \in 1..NParams |->
         IF i % 2 = 1 THEN <<-2, 0, 1>>[pick[i]] ELSE <<-1, 0, 2>>[pick[i]]] :
        pick \in [1..NParams -> 1..3]}

ApplyRank ==
    /\ call = NoCall
    /\ \E c \in ContribInputs :
          call' = [fn |-> "sort_values",
                   args |-> shap_rows(build_client_df(Defaults), c),
                   result |-> sort_values(shap_rows(build_client_df(Defaults), c))]
    /\ UNCHANGED procVars

\* ranked tables in which every column in turn, with either sign, is first
ReportTables ==
    {sort_values(shap_rows(build_client_df(Defaults),
        [i \in 1..NParams |->
            IF i = k THEN v
            ELSE IF i = (k % NParams) + 1 THEN 2
            ELSE IF i = ((k + 1) % NParams) + 1 THEN -1
            ELSE 0])) : k \in 1..NParams, v \in {-3, 3}}

\* language codes handed to the report function, recognized or not
LangCodes == {"fr", "en", "de", "FR", ""}

ApplyReport ==
    /\ call = NoCall
    /\ \E args \in {Defaults, [Defaults EXCEPT ![2] = Moved[2]]},
          classe \in {0, 1}, shap_df \in ReportTables, lang \in LangCodes :
          call' = [fn |-> "generate_auto_ai_report",
                   args |-> [args |-> args, classe |-> classe, shap_df |-> shap_df,
                             lang |-> lang],
                   result |-> generate_auto_ai_report(
                                  args, predict_proba(build_client_df(args)), classe,
                                  shap_df, lang)]
    /\ UNCHANGED procVars

ApplyResolve ==
    /\ call = NoCall
    /\ \E url \in UrlLangs :
          call' = [fn |-> "resolve_lang", args |-> url, result |-> resolve_lang(url)]
    /\ UNCHANGED procVars

\* the on-page interpretation list (lines 675-695) of a ranked table
ApplyInterpretation ==
    /\ call = NoCall
    /\ \E shap_df \in ReportTables :
          call' = [fn |-> "interpretation", args |-> shap_df,
                   result |-> interpretation(shap_df)]
    /\ UNCHANGED procVars

NextFn == ApplyBuild \/ ApplyRank \/ ApplyReport \/ ApplyResolve \/ ApplyInterpretation

\* the harness does not use the LLM credential
InitFn == Init /\ secrets = NoSecretsFile

SpecFn == InitFn /\ [][NextFn]_vars

Called(fn) == call.fn = fn

(***************************************************************************)
(* Properties.                                                             *)
(***************************************************************************)
Returned(s, fn) == ret[s].fn = fn

Store(fn) == IF fn = "predict_client" THEN predict_cache ELSE shap_cache

\* the feature values a returned value was computed from
ValuesIn(fn, value) ==
    IF fn = "predict_client" THEN Values(value[1]) ELSE value[1].data

Differ1(a, b) == Cardinality({i \in 1..NParams : a[i] # b[i]}) = 1

\* C1: with one script run at a time, every argument tuple is scored at most
\* once and explained at most once, and a call that returns from the store
\* (a hit) returns exactly the value stored for its ten arguments.
C1_HitAfterFirstMiss ==
    /\ \A a \in DOMAIN nScored : nScored[a] <= 1
    /\ \A a \in DOMAIN nExplained : nExplained[a] <= 1
    /\ \A s \in Sessions :
          ret[s].fn # None /\ ret[s].hit =>
              /\ ret[s].args \in DOMAIN Store(ret[s].fn)
              /\ ret[s].value = Store(ret[s].fn)[ret[s].args]
              /\ <<ret[s].fn, ret[s].args, ret[s].value>> \in returned

\* a later run of the same settings is served from both stores
C1_Witness ==
    \E s \in Sessions :
        /\ Returned(s, "compute_shap_values") /\ ret[s].hit
        /\ nScored[widgets[s]] = 1 /\ nExplained[widgets[s]] = 1
        /\ runs = 2

\* C2: a call served from a store never gets the entry of a tuple that
\* differs from its own arguments in exactly one field, whichever field.
C2_NoFalseHit ==
    \A s \in Sessions :
        ret[s].fn # None /\ ret[s].hit =>
            \A b \in Settings :
                Differ1(b, ret[s].args) =>
                    ValuesIn(ret[s].fn, ret[s].value) # Values(build_client_df(b))

\* a hit while the store also holds an entry one field away
C2_Witness ==
    \E s \in Sessions :
        /\ Returned(s, "predict_client") /\ ret[s].hit
        /\ \E b \in DOMAIN predict_cache : Differ1(b, ret[s].args)
        /\ ValuesIn("predict_client", ret[s].value) = Values(build_client_df(ret[s].args))

\* the step in which the body of predict_client / compute_shap_values raises
Raises(s) ==
    \/ At(s, "L43") /\ nScored' = nScored
    \/ At(s, "L54") /\ nExplained' = nExplained

\* the script is inside the call it made at line 617
InsideLine617(s) ==
    Len(stack[s]) > 1 /\ stack[s][Len(stack[s])].at = "L617"

\* C3: when scoring or attribution raises, the exception ends the script run
\* (it reaches the caller), both stores are exactly as before, and no store
\* ever holds an entry for a tuple whose computation never completed, so the
\* next identical call misses and runs the body again.  No step inside the
\* call of line 617 writes the prediction store (the nested call of line 51
\* is a hit), so the stores at the raise are the stores before the call.
C3_FailureNotCached ==
    [][ /\ \A s \in Sessions :
              /\ Raises(s) =>
                    /\ stack'[s] = <<Frame("error")>>
                    /\ out'[s].exception \in {"predict_client", "compute_shap_values"}
                    /\ predict_cache' = predict_cache
                    /\ shap_cache' = shap_cache
              /\ InsideLine617(s) => predict_cache' = predict_cache
        /\ DOMAIN predict_cache' = DOMAIN nScored'
        /\ DOMAIN shap_cache' = DOMAIN nExplained' ]_vars

\* a run is inside the body of predict_client again, for arguments whose
\* earlier scoring raised
C3_Witness ==
    \E s \in Sessions :
        /\ At(s, "L43")
        /\ <<"predict_client", widgets[s], Raised>> \in returned
        /\ widgets[s] \notin DOMAIN predict_cache

\* C4: with overlapping runs and unprotected stores, all calls of one
\* function with one argument tuple that return, return the same value, a
\* value computed from these very arguments, and a store holds nothing but
\* values that were returned.
C4_SameResultUnderRace ==
    /\ \A r1, r2 \in returned :
          r1[1] = r2[1] /\ r1[2] = r2[2] /\ r1[3] # Raised /\ r2[3] # Raised
              => r1[3] = r2[3]
    /\ \A s \in Sessions :
          ret[s].fn # None =>
              ValuesIn(ret[s].fn, ret[s].value) = Values(build_client_df(ret[s].args))
    /\ \A fn \in {"predict_client", "compute_shap_values"} :
          \A k \in DOMAIN Store(fn) :
              \E r \in returned : r[1] = fn /\ r[3] = Store(fn)[k]

\* two overlapping runs both missed on the same tuple and both scored it
C4_Witness ==
    \E a \in DOMAIN nScored :
        /\ nScored[a] = 2
        /\ \A s \in Sessions : Returned(s, "predict_client") /\ ret[s].args = a /\ ~ret[s].hit

Frames == UNION {{stack[s][i] : i \in 1..Len(stack[s])} : s \in Sessions}

\* C5: with one script run at a time, joblib.load runs at most once, and
\* every frame that holds a model holds that one object, the stored one.
C5_ModelLoadedOnce ==
    /\ nLoad <= 1
    /\ \A f \in Frames :
          f.model.object # None =>
              /\ load_model_cached
              /\ f.model = load_model_cache[<<>>]
              /\ f.model.id = 1

\* a second run, scoring other settings, got the model of the first run
C5_Witness ==
    \E s \in Sessions :
        /\ At(s, "L43") /\ Top(s).model.id = 1
        /\ runs = 2 /\ nLoad = 1
        /\ predict_cache # Empty

\* C6: with one script run at a time, shap.Explainer runs at most once, it
\* is built for the one model, and every attribution computed on a miss uses
\* that explainer.
C6_ExplainerBuiltOnce ==
    /\ nExplainer <= 1
    /\ explainer_cached =>
          /\ load_model_cached
          /\ explainer_cache[<<>>].model = load_model_cache[<<>>]
    /\ \A f \in Frames :
          f.explainer.object # None =>
              /\ explainer_cached
              /\ f.explainer = explainer_cache[<<>>]
              /\ f.explainer.id = 1

\* an attribution miss for a second tuple, about to use the explainer that
\* was built for the first
C6_Witness ==
    \E s \in Sessions :
        /\ At(s, "L54") /\ Top(s).explainer.id = 1
        /\ shap_cache # Empty
        /\ widgets[s] \notin DOMAIN shap_cache

\* C7: the sorted attribution table has one row per column of the record,
\* holds exactly the rows it was given, and is in descending order of
\* |shap_value|, whatever the signs of the values.
C7_SortedByAbs ==
    Called("sort_values") =>
        LET rows == call.args
            shap_df == call.result
        IN /\ Len(shap_df) = NParams
           /\ {shap_df[i].feature : i \in 1..Len(shap_df)}
                  = {build_client_df(Defaults)[i][1] : i \in 1..NParams}
           /\ {shap_df[i] : i \in 1..Len(shap_df)} = {rows[i] : i \in 1..Len(rows)}
           /\ \A i \in 1..(Len(shap_df) - 1) :
                  Abs(shap_df[i].shap_value) >= Abs(shap_df[i + 1].shap_value)

\* a table with negative, zero and positive values that the sort reordered,
\* a negative value ending above a smaller positive one
C7_Witness ==
    /\ Called("sort_values")
    /\ call.result # call.args
    /\ \E i, j, k \in 1..NParams :
          /\ i < j /\ j < k
          /\ call.result[i].shap_value < 0
          /\ call.result[j].shap_value > 0
          /\ Abs(call.result[i].shap_value) > call.result[j].shap_value
          /\ call.result[k].shap_value = 0

\* the value stored under a column name
Cell(df, name) == df[CHOOSE i \in 1..Len(df) : df[i][1] = name][2]

\* C8: the record has the ten canonical columns in the fixed order; the
\* revolving-utilization cell is the percentage divided by 100 and each other
\* cell is its own input, unchanged.
C8_FeatureRecord ==
    Called("build_client_df") =>
        LET args == call.args
            df == call.result
        IN /\ Columns(df) = <<"RevolvingUtilizationOfUnsecuredLines", "age",
                              "NumberOfTime30-59DaysPastDueNotWorse", "DebtRatio",
                              "MonthlyIncome", "NumberOfOpenCreditLinesAndLoans",
                              "NumberOfTimes90DaysLate", "NumberRealEstateLoansOrLines",
                              "NumberOfTime60-89DaysPastDueNotWorse",
                              "NumberOfDependents">>
           /\ IsQuotient(Cell(df, "RevolvingUtilizationOfUnsecuredLines"),
                         Arg(args, "revolving"), Hundred)
           /\ Cell(df, "age") = Arg(args, "age")
           /\ Cell(df, "MonthlyIncome") = Arg(args, "income")
           /\ Cell(df, "NumberOfDependents") = Arg(args, "dependents")
           /\ Cell(df, "NumberOfOpenCreditLinesAndLoans") = Arg(args, "open_credit")
           /\ Cell(df, "NumberRealEstateLoansOrLines") = Arg(args, "real_estate")
           /\ Cell(df, "DebtRatio") = Arg(args, "debt_ratio")
           /\ Cell(df, "NumberOfTime30-59DaysPastDueNotWorse") = Arg(args, "late_30")
           /\ Cell(df, "NumberOfTime60-89DaysPastDueNotWorse") = Arg(args, "late_60")
           /\ Cell(df, "NumberOfTimes90DaysLate") = Arg(args, "late_90")

\* revolving = 37.5 gives 0.375 = 3/8, with the three late-payment counts
\* pairwise different
C8_Witness ==
    /\ Called("build_client_df")
    /\ Arg(call.args, "revolving") = <<75, 2>>
    /\ Cell(call.result, "RevolvingUtilizationOfUnsecuredLines") = <<3, 8>>
    /\ Arg(call.args, "late_30") # Arg(call.args, "late_60")
    /\ Arg(call.args, "late_60") # Arg(call.args, "late_90")
    /\ Arg(call.args, "late_30") # Arg(call.args, "late_90")

\* C9: a language code outside {"fr", "en"} handed to generate_auto_ai_report
\* yields the text of the default language, French, the language lines
\* 250-257 fall back to.
C9_UnrecognizedLangIsFrench ==
    Called("generate_auto_ai_report") /\ call.args.lang \notin {"fr", "en"} =>
        /\ resolve_lang(call.args.lang) = "fr"
        /\ call.result.template = resolve_lang(call.args.lang)
        /\ call.result.title = "ANALYSE AUTOMATIQUE DU PROFIL CLIENT"

\* C10: when co.generate raises, the exception stops at the except clause:
\* the run goes on to the export blocks, the error message is shown, the
\* stored LLM text and both stores are as before, the automatic report is
\* the one already rendered, and at the end of that run the PDF block, the
\* Excel block, the health score and the footer have all been executed, the
\* PDF body (when the PDF was assembled) coming from the same text as in a
\* run without the failure.
C10_LLMFailureIsolated ==
    [][ \A s \in Sessions :
          /\ At(s, "L735") /\ out'[s].llm_result = "failed" =>
                /\ stack'[s] = <<[Top(s) EXCEPT !.at = "L764"]>>
                /\ out'[s].llm_message = "Erreur API Cohere"
                /\ out'[s].exception = None
                /\ texte_ia'[s] = IF texte_ia[s] = Unset THEN None ELSE texte_ia[s]
                /\ predict_cache' = predict_cache
                /\ shap_cache' = shap_cache
                /\ out'[s].auto_report = out[s].auto_report
                /\ out'[s].auto_report.template \in {"fr", "en"}
          /\ out[s].llm_result = "failed" =>
                /\ At(s, "L764") \/ At(s, "L812") \/ At(s, "done")
                /\ texte_ia'[s] = texte_ia[s]
                /\ At(s, "L764") => At(s, "L812")'
                /\ At(s, "L812") => At(s, "done")'
                /\ At(s, "done") =>
                      /\ out[s].auto_report.template \in {"fr", "en"}
                      /\ out[s].pdf \in {"offered", "Erreur génération PDF"}
                      /\ out[s].excel \in {"offered", "Erreur génération Excel"}
                      /\ out[s].pdf = "offered" =>
                            out[s].pdf_body.source =
                                (IF Truthy(texte_ia[s]) THEN "texte_ia" ELSE "auto_report")
                      /\ out[s].health # None /\ out[s].footer ]_vars

\* a run whose generation call failed has ended with both downloads
\* offered, the text stored by an earlier run still in place
C10_Witness ==
    \E s \in Sessions :
        /\ At(s, "done") /\ out[s].llm_result = "failed"
        /\ out[s].llm_message = "Erreur API Cohere"
        /\ out[s].pdf = "offered" /\ out[s].excel = "offered"
        /\ out[s].pdf_body.source = "texte_ia"
        /\ texte_ia[s] = "Avis: accepté"

\* the generate button was pressed in the step that executes lines 735-757
Pressed(s) ==
    /\ At(s, "L735")
    /\ \/ out'[s].llm_message # None
       \/ out'[s].llm_result # None
       \/ out'[s].exception # None

\* C11: when the generate button is pressed and the deployment holds no
\* COHERE_API_KEY, the missing-key message is shown, no generation call is
\* made, the stored LLM text is as before, both stores are untouched, and
\* the run goes on to the export blocks with the page it would have without
\* the press (only the message differs).
C11_MissingCredentialIsVisible ==
    [][ \A s \in Sessions :
          Pressed(s) /\ secrets_contains("COHERE_API_KEY") # "yes" =>
              /\ out'[s] = [out[s] EXCEPT
                               !.llm_message = "missing_api_key",
                               !.llm_card = IF Truthy(texte_ia[s]) THEN texte_ia[s] ELSE None]
              /\ ~out'[s].llm_called
              /\ texte_ia'[s] = IF texte_ia[s] = Unset THEN None ELSE texte_ia[s]
              /\ predict_cache' = predict_cache
              /\ shap_cache' = shap_cache
              /\ stack'[s] = <<[Top(s) EXCEPT !.at = "L764"]>> ]_vars

\* C12: each export block contains its own failure.  The PDF block, whether
\* it offers the download or reports an assembly error, changes nothing but
\* its own part of the page and hands over to the Excel block; the Excel
\* block, whether it offers the download or reports an error, leaves the PDF
\* part as it was, and the health score and the footer are rendered after it;
\* no export failure ends the run.
C12_ExportErrorsIndependent ==
    [][ \A s \in Sessions :
          /\ At(s, "L764") =>
                /\ stack'[s] = <<[Top(s) EXCEPT !.at = "L812"]>>
                /\ out'[s].pdf \in {"offered", "Erreur génération PDF"}
                /\ out'[s] = [out[s] EXCEPT !.pdf = out'[s].pdf,
                                            !.pdf_body = out'[s].pdf_body]
          /\ At(s, "L812") =>
                /\ stack'[s] = <<[Top(s) EXCEPT !.at = "done"]>>
                /\ out'[s].excel \in {"offered", "Erreur génération Excel"}
                /\ out'[s].pdf = out[s].pdf
                /\ out'[s].pdf_body = out[s].pdf_body
                /\ out'[s].exception = None
                /\ out'[s].health = score_text(loc[s].proba)
                /\ out'[s].footer
                /\ out'[s].excel = "offered" =>
                      out'[s].excel_factors = shap_export(loc[s].shap_df) ]_vars

\* a run in which the PDF assembly failed has ended with the spreadsheet
\* offered, the health score and the footer rendered
C12_Witness ==
    \E s \in Sessions :
        /\ At(s, "done")
        /\ out[s].pdf = "Erreur génération PDF"
        /\ out[s].excel = "offered" /\ Len(out[s].excel_factors) = TopExport
        /\ out[s].health \in {"Excellent", "Correct", "Faible"} /\ out[s].footer
        /\ out[s].exception = None

\* the direction word the sign of a contribution calls for
WordFor(row, word) ==
    /\ row.shap_value > 0 => word = "augmente"
    /\ row.shap_value < 0 => word = "diminue"

\* C13: in the report, whatever the language code, and in the on-page
\* interpretation list, the direction word of each listed factor follows the
\* sign of that row's contribution: "augmente" for a positive one, "diminue"
\* for a negative one.
C13_DirectionFollowsSign ==
    /\ Called("generate_auto_ai_report") =>
          \A i \in 1..Len(call.result.factors) :
              WordFor(call.args.shap_df[i], call.result.factors[i].impact)
    /\ Called("interpretation") =>
          \A i \in 1..Len(call.result) :
              WordFor(call.args[i], call.result[i].impact)

\* an English report whose first factor lowers the risk and whose second
\* raises it
C13_Witness ==
    /\ Called("generate_auto_ai_report")
    /\ call.args.lang = "en"
    /\ call.args.shap_df[1].shap_value < 0
    /\ call.result.factors[1].impact = "diminue"
    /\ call.args.shap_df[2].shap_value > 0
    /\ call.result.factors[2].impact = "augmente"

\* the ten column names of the record, as a set
CanonicalNames == {build_client_df(Defaults)[i][1] : i \in 1..NParams}

\* C14: every factor line of the report shows a display name, never the raw
\* column name, whichever of the ten columns is among the first three rows.
C14_DisplayNameForEveryFeature ==
    Called("generate_auto_ai_report") =>
        \A i \in 1..Len(call.result.factors) :
            /\ call.args.shap_df[i].feature \in CanonicalNames
            /\ call.result.factors[i].name # call.args.shap_df[i].feature
            /\ call.result.factors[i].name \notin CanonicalNames

\* every entry of the store before the step is in the store after it, with
\* the same value
Kept(cache_before, cache_after) ==
    \A k \in DOMAIN cache_before :
        k \in DOMAIN cache_after /\ cache_after[k] = cache_before[k]

\* C15: no step of any run removes or changes an entry of the prediction
\* store or of the attribution store: each store's key set only grows and
\* every key keeps the value first stored under it.
C15_NeverEvicted ==
    [][ /\ Kept(predict_cache, predict_cache')
        /\ Kept(shap_cache, shap_cache') ]_vars

\* both stores hold two tuples: the first session's entry is still there
\* after another run stored a second one
C15_Witness ==
    /\ Cardinality(DOMAIN predict_cache) = 2
    /\ Cardinality(DOMAIN shap_cache) = 2
    /\ Defaults \in DOMAIN shap_cache
    /\ \A k \in DOMAIN shap_cache :
          shap_cache[k][1].data = Values(build_client_df(k))

\* C16: in one run the report, the interpretation list and the spreadsheet
\* all cut the one ranked table of line 617: the report and the list hold
\* exactly its first 3 rows, the factor sheet exactly its first 5, each in
\* the table's order, so the three narrative factors are rows 1-3 of the
\* five exported ones.
C16_SameRankingTruncated ==
    \A s \in Sessions :
        LET shap_df == loc[s].shap_df
            report == out[s].auto_report
        IN /\ report.template # None =>
                 /\ Len(shap_df) = NParams
                 /\ Len(report.factors) = 3
                 /\ Len(out[s].interpretation) = 3
                 /\ \A i \in 1..3 :
                       /\ report.factors[i].name = report_feature_name(shap_df[i].feature)
                       /\ report.factors[i].impact = report_impact(shap_df[i])
                       /\ out[s].interpretation[i].name
                              = page_feature_display(shap_df[i].feature)
           /\ out[s].excel = "offered" =>
                 /\ Len(out[s].excel_factors) = 5
                 /\ \A i \in 1..5 :
                       /\ out[s].excel_factors[i].feature
                              = excel_feature_name(shap_df[i].feature)
                       /\ out[s].excel_factors[i].shap_value = shap_df[i].shap_value
                       /\ out[s].excel_factors[i].value = shap_df[i].value
                 /\ \A i \in 1..3 :
                       \E f \in CanonicalNames :
                           /\ report.factors[i].name = report_feature_name(f)
                           /\ out[s].excel_factors[i].feature = excel_feature_name(f)

\* a finished run with the spreadsheet offered, whose ranked table has more
\* than five rows with a nonzero contribution
C16_Witness ==
    \E s \in Sessions :
        /\ At(s, "done") /\ out[s].excel = "offered"
        /\ Len(out[s].auto_report.factors) = 3
        /\ Len(out[s].excel_factors) = 5
        /\ loc[s].shap_df[6].shap_value # 0
        /\ out[s].excel_factors[4].feature # out[s].excel_factors[5].feature

\* C17: every tuple of the attribution store is in the prediction store, its
\* attribution computed from the stored record.  An attribution miss goes,
\* in this order, through predict_client for the same tuple (line 51: the
\* call has just returned the stored entry), load_model (line 52) and
\* get_shap_explainer (line 53) before line 54 computes.
C17_AttributionAfterPrediction ==
    /\ DOMAIN shap_cache \subseteq DOMAIN predict_cache
    /\ \A k \in DOMAIN shap_cache :
          shap_cache[k][1].data = Values(predict_cache[k][1])
    /\ \A s \in Sessions :
          LET key == CacheKey(widgets[s]) IN
          /\ At(s, "L52") /\ InsideLine617(s) =>
                /\ key \in DOMAIN predict_cache
                /\ ret[s] = Outcome("predict_client", widgets[s], TRUE, predict_cache[key])
                /\ Top(s).client_df = predict_cache[key][1]
                /\ Top(s).model = NoHandle /\ Top(s).explainer = NoHandle
          /\ At(s, "L53") =>
                /\ key \in DOMAIN predict_cache
                /\ Top(s).client_df = predict_cache[key][1]
                /\ Top(s).model = load_model_cache[<<>>]
                /\ Top(s).explainer = NoHandle
          /\ At(s, "L54") =>
                /\ key \in DOMAIN predict_cache
                /\ Top(s).client_df = predict_cache[key][1]
                /\ Top(s).model = load_model_cache[<<>>]
                /\ Top(s).explainer = explainer_cache[<<>>]

\* an attribution miss about to compute, for a tuple the prediction store
\* holds and the attribution store does not yet, with another tuple already in
\* both
C17_Witness ==
    \E s \in Sessions :
        /\ At(s, "L54")
        /\ widgets[s] \in DOMAIN predict_cache
        /\ widgets[s] \notin DOMAIN shap_cache
        /\ shap_cache # Empty

====
